---- MODULE Spec2Model ----
(***************************************************************************)
(* Model of converter.py: parse_connections (the path interpreter) and     *)
(* generate_spice_netlist (its SPICE caller).                              *)
(*                                                                         *)
(* Python strings are sequences of one-character strings, so that the      *)
(* regular expression, str.strip, str.split, the f-strings and str.join    *)
(* are computed character by character.  Python dicts keep insertion       *)
(* order: a dict of components is a record [keys, conns] whose keys field   *)
(* is the insertion order and whose conns field is the mapping.  Positions  *)
(* are 0-based as in the source; At(path, k) is path[k].                   *)
(***************************************************************************)
EXTENDS Integers, Sequences, FiniteSets, TLC

VARIABLES data, path, i, pc, components, netlist, text

vars == <<data, path, i, pc, components, netlist, text>>

(* ------------------------------ bounds -------------------------------- *)

\* longest path over the wide token pool
MaxLen == 3

\* longest path over the narrow token pool (repeated terminals)
MaxLenNarrow == 5

(* --------------------------- string helpers --------------------------- *)

None == [none |-> TRUE]

At(s, k) == s[k + 1]

Digits == {"0", "1", "2", "3", "4", "5", "6", "7", "8", "9"}

Upper == <<"A", "B", "C", "D", "E", "F", "G", "H", "I", "J", "K", "L", "M",
           "N", "O", "P", "Q", "R", "S", "T", "U", "V", "W", "X", "Y", "Z">>

UpperSet == {Upper[k] : k \in 1..Len(Upper)}

\* the characters str.strip() removes that a TLA+ string can denote
Whitespace == {" ", "\t", "\n", "\r", "\f"}

RECURSIVE lstrip(_)
lstrip(s) ==
    IF s # <<>> /\ Head(s) \in Whitespace THEN lstrip(Tail(s)) ELSE s

RECURSIVE rstrip(_)
rstrip(s) ==
    IF s # <<>> /\ s[Len(s)] \in Whitespace
    THEN rstrip(SubSeq(s, 1, Len(s) - 1))
    ELSE s

strip(s) == rstrip(lstrip(s))

\* str.startswith(pre)
startswith(s, pre) ==
    /\ Len(s) >= Len(pre)
    /\ SubSeq(s, 1, Len(pre)) = pre

\* positions (1-based) at which sep occurs in s
Occurrences(s, sep) ==
    {k \in 1..(Len(s) - Len(sep) + 1) : SubSeq(s, k, k + Len(sep) - 1) = sep}

Min(S) == CHOOSE x \in S : \A y \in S : x <= y

\* str.split(sep): leftmost, non-overlapping separators; keeps empty pieces
RECURSIVE split(_, _)
split(s, sep) ==
    IF Occurrences(s, sep) = {}
    THEN <<s>>
    ELSE LET k == Min(Occurrences(s, sep))
         IN  <<SubSeq(s, 1, k - 1)>> \o split(SubSeq(s, k + Len(sep), Len(s)), sep)

\* sep.join(parts)
RECURSIVE join(_, _)
join(parts, sep) ==
    IF parts = <<>> THEN <<>>
    ELSE IF Len(parts) = 1 THEN parts[1]
    ELSE parts[1] \o sep \o join(Tail(parts), sep)

Arrow == <<"-", ">">>

(* ------------------------- the terminal pattern ----------------------- *)

Prefixes == <<(<<"N", "M">>), (<<"P", "M">>), (<<"R">>), (<<"C">>)>>

TermClass == {"D", "G", "S", "B", "P", "N"}

\* Python's $ matches at the end of the string and also just before one
\* trailing newline
BeforeDollar(part) ==
    IF part # <<>> /\ part[Len(part)] = "\n"
    THEN SubSeq(part, 1, Len(part) - 1)
    ELSE part

\* (NM|PM|R|C): the first alternative that is a prefix of s, or <<>>
MatchedPrefix(s) ==
    IF \E k \in 1..Len(Prefixes) : startswith(s, Prefixes[k])
    THEN Prefixes[Min({k \in 1..Len(Prefixes) : startswith(s, Prefixes[k])})]
    ELSE <<>>

\* the pattern with the terminal letter class widened to [A-Z]
terminal_regex_any_letter(part) ==
    LET s   == BeforeDollar(part)
        pre == MatchedPrefix(s)
        num == SubSeq(s, Len(pre) + 1, Len(s) - 2)
    IN  IF /\ pre # <<>>
           /\ Len(s) >= Len(pre) + 3
           /\ \A k \in 1..Len(num) : num[k] \in Digits
           /\ s[Len(s) - 1] = "_"
           /\ s[Len(s)] \in UpperSet
        THEN [comp_type |-> pre, comp_num |-> num, term_type |-> s[Len(s)]]
        ELSE None

\* terminal_regex.match(part): the three groups, or None
terminal_regex(part) ==
    LET s   == BeforeDollar(part)
        pre == MatchedPrefix(s)
        num == SubSeq(s, Len(pre) + 1, Len(s) - 2)
    IN  IF /\ pre # <<>>
           /\ Len(s) >= Len(pre) + 3
           /\ \A k \in 1..Len(num) : num[k] \in Digits
           /\ s[Len(s) - 1] = "_"
           /\ s[Len(s)] \in TermClass
        THEN [comp_type |-> pre, comp_num |-> num, term_type |-> s[Len(s)]]
        ELSE None

\* f"{comp_type}{comp_num}"
comp_name(m) == m.comp_type \o m.comp_num

(* ------------------------- the components dict ------------------------ *)

EmptyDict == [keys |-> <<>>, conns |-> <<>>]

Keys(d) == DOMAIN d.conns

\* defaultdict(dict).__getitem__: a missing key is inserted with an empty dict
getitem(d, name) ==
    IF name \in Keys(d) THEN d
    ELSE [keys |-> Append(d.keys, name), conns |-> d.conns @@ (name :> <<>>)]

\* the same-component test reduced to the textual comparison alone
is_part_of_same_comp_never(neighbor, name) == FALSE

\* is_prev_part_of_same_comp / is_next_part_of_same_comp
is_part_of_same_comp(neighbor, name) ==
    LET m == terminal_regex(neighbor)
    IN  m # None /\ comp_name(m) = name

\* the write without the "term_type not in" test: the last neighbour wins
connect_overwrite(d, name, term, neighbor) ==
    IF neighbor # name /\ ~is_part_of_same_comp(neighbor, name)
    THEN LET g == getitem(d, name)
         IN  [g EXCEPT !.conns[name] =
                 [x \in (DOMAIN @) \cup {term} |-> IF x = term THEN neighbor ELSE @[x]]]
    ELSE d

\* components[comp_name] looked up before the neighbour is tested
connect_touch(d, name, term, neighbor) ==
    LET g == getitem(d, name)
    IN  IF neighbor # name /\ ~is_part_of_same_comp(neighbor, name)
        THEN IF term \in DOMAIN g.conns[name]
             THEN g
             ELSE [g EXCEPT !.conns[name] = @ @@ (term :> neighbor)]
        ELSE g

\* the guarded first-write of one neighbour
connect(d, name, term, neighbor) ==
    IF neighbor # name /\ ~is_part_of_same_comp(neighbor, name)
    THEN LET g == getitem(d, name)
         IN  IF term \in DOMAIN g.conns[name]
             THEN g
             ELSE [g EXCEPT !.conns[name] = @ @@ (term :> neighbor)]
    ELSE d

(* ----------------------- generate_spice_netlist ----------------------- *)

Rank(ch) == CHOOSE k \in 1..Len(Upper) : Upper[k] = ch

\* ([A-Z]+): the longest run of upper-case letters at the start of x
RECURSIVE letters(_)
letters(x) ==
    IF x # <<>> /\ Head(x) \in UpperSet THEN <<Head(x)>> \o letters(Tail(x)) ELSE <<>>

\* (\d+): the longest run of digits at the start of x
RECURSIVE digits(_)
digits(x) ==
    IF x # <<>> /\ Head(x) \in Digits THEN <<Head(x)>> \o digits(Tail(x)) ELSE <<>>

DigitVal(ch) == CHOOSE v \in 0..9 : <<"0", "1", "2", "3", "4", "5", "6", "7", "8", "9">>[v + 1] = ch

\* int(ds)
RECURSIVE int(_)
int(ds) ==
    IF ds = <<>> THEN 0
    ELSE 10 * int(SubSeq(ds, 1, Len(ds) - 1)) + DigitVal(ds[Len(ds)])

\* the key of sorted(): (group(1), int(group(2))) of ([A-Z]+)(\d+)
sort_key(x) ==
    [type |-> letters(x),
     num  |-> int(digits(SubSeq(x, Len(letters(x)) + 1, Len(x))))]

\* str < str on upper-case strings
RECURSIVE StrLess(_, _)
StrLess(a, b) ==
    IF b = <<>> THEN FALSE
    ELSE IF a = <<>> THEN TRUE
    ELSE IF Head(a) # Head(b) THEN Rank(Head(a)) < Rank(Head(b))
    ELSE StrLess(Tail(a), Tail(b))

KeyLess(p, q) ==
    \/ StrLess(p.type, q.type)
    \/ p.type = q.type /\ p.num < q.num

\* x put after the last element of the sorted s that is not greater than it
RECURSIVE insert(_, _)
insert(s, x) ==
    IF s # <<>> /\ KeyLess(sort_key(x), sort_key(s[Len(s)]))
    THEN Append(insert(SubSeq(s, 1, Len(s) - 1), x), s[Len(s)])
    ELSE Append(s, x)

\* sorted(components.keys(), key=...): stable
RECURSIVE sorted(_)
sorted(s) ==
    IF s = <<>> THEN <<>>
    ELSE insert(sorted(SubSeq(s, 1, Len(s) - 1)), s[Len(s)])

NC == <<"N", "C">>

SP == <<" ">>

\* conns.get(term) without the default: None is formatted as "None"
get_no_default(conns, term) ==
    IF term \in DOMAIN conns THEN conns[term] ELSE <<"N", "o", "n", "e">>

\* conns.get(term, 'NC')
get(conns, term) == IF term \in DOMAIN conns THEN conns[term] ELSE NC

nmos_model == <<"n", "m", "o", "s", "_", "m", "o", "d", "e", "l">>

pmos_model == <<"p", "m", "o", "s", "_", "m", "o", "d", "e", "l">>

\* the four-terminal f-string of the NM and PM branches
mos_line(name, conns, model) ==
    <<"M">> \o SubSeq(name, 3, Len(name)) \o SP \o get(conns, "D") \o SP
        \o get(conns, "G") \o SP \o get(conns, "S") \o SP \o get(conns, "B")
        \o SP \o model

\* the two-terminal f-string of the R and C branches
passive_line(letter, name, conns, value) ==
    <<letter>> \o SubSeq(name, 2, Len(name)) \o SP \o get(conns, "P") \o SP
        \o get(conns, "N") \o SP \o value

\* the lines one component appends to the netlist (none when no branch applies)
device_lines(name, conns) ==
    IF startswith(name, <<"N", "M">>) THEN <<mos_line(name, conns, nmos_model)>>
    ELSE IF startswith(name, <<"P", "M">>) THEN <<mos_line(name, conns, pmos_model)>>
    ELSE IF startswith(name, <<"R">>) THEN <<passive_line("R", name, conns, <<"1", "k">>)>>
    ELSE IF startswith(name, <<"C">>) THEN <<passive_line("C", name, conns, <<"1", "p">>)>>
    ELSE <<>>

Header == <<"*", " ", "G", "e", "n", "e", "r", "a", "t", "e", "d", " ",
            "S", "P", "I", "C", "E", " ", "n", "e", "t", "l", "i", "s", "t">>

End == <<".", "E", "N", "D">>

RECURSIVE body_lines(_, _)
body_lines(names, d) ==
    IF names = <<>> THEN <<>>
    ELSE device_lines(Head(names), d.conns[Head(names)]) \o body_lines(Tail(names), d)

spice_lines(d) == <<Header>> \o body_lines(sorted(d.keys), d) \o <<End>>

(* ------------------------------ inputs -------------------------------- *)

tA == <<"A">>
tB == <<"B">>
tNM1 == <<"N", "M", "1">>
tNM1_D == <<"N", "M", "1", "_", "D">>
tNM1_G == <<"N", "M", "1", "_", "G">>
tNM1_Gnl == <<"N", "M", "1", "_", "G", "\n">>
tNM01_D == <<"N", "M", "0", "1", "_", "D">>
tPM1_D == <<"P", "M", "1", "_", "D">>
tR1 == <<"R", "1">>
tR1_P == <<"R", "1", "_", "P">>
tR1_D == <<"R", "1", "_", "D">>
tR1_Z == <<"R", "1", "_", "Z">>
tnm1_D == <<"n", "m", "1", "_", "D">>
tC1_N == <<"C", "1", "_", "N">>
tEmpty == <<>>

WidePool == {tA, tNM1, tNM1_D, tNM1_G, tNM1_Gnl, tNM01_D, tPM1_D,
             tR1_P, tR1_D, tR1_Z, tnm1_D, tC1_N, tEmpty}

NarrowPool == {tA, tB, tR1, tR1_P}

SeqsUpTo(S, n) == UNION {[1..k -> S] : k \in 0..n}

\* the file contents: tokens joined by the path separator
Inputs ==
    {join(p, Arrow) : p \in SeqsUpTo(WidePool, MaxLen) \cup SeqsUpTo(NarrowPool, MaxLenNarrow)}

(* ------------------------------ actions ------------------------------- *)

Init ==
    /\ data \in Inputs
    /\ path = <<>>
    /\ i = 0
    /\ pc = "start"
    /\ components = EmptyDict
    /\ netlist = <<>>
    /\ text = <<>>

\* path = data.strip().split('->'); components = defaultdict(dict)
Tokenize ==
    /\ pc = "start"
    /\ path' = split(strip(data), Arrow)
    /\ components' = EmptyDict
    /\ i' = 0
    /\ pc' = "loop"
    /\ UNCHANGED <<data, netlist, text>>

\* if not match: continue
SkipToken ==
    /\ pc = "loop"
    /\ i < Len(path)
    /\ terminal_regex(At(path, i)) = None
    /\ i' = i + 1
    /\ UNCHANGED <<data, path, pc, components, netlist, text>>

\* a missing previous part taken as the empty string
CheckPrev_missing_as_empty ==
    /\ pc = "loop"
    /\ i < Len(path)
    /\ terminal_regex(At(path, i)) # None
    /\ LET m == terminal_regex(At(path, i))
       IN  components' =
               connect(components, comp_name(m), m.term_type,
                       IF i > 0 THEN At(path, i - 1) ELSE <<>>)
    /\ pc' = "next"
    /\ UNCHANGED <<data, path, i, netlist, text>>

\* if i > 0: ... the previous part
CheckPrev ==
    /\ pc = "loop"
    /\ i < Len(path)
    /\ terminal_regex(At(path, i)) # None
    /\ LET m == terminal_regex(At(path, i))
       IN  components' =
               IF i > 0
               THEN connect(components, comp_name(m), m.term_type, At(path, i - 1))
               ELSE components
    /\ pc' = "next"
    /\ UNCHANGED <<data, path, i, netlist, text>>

\* if i < len(path) - 1: ... the next part
CheckNext ==
    /\ pc = "next"
    /\ LET m == terminal_regex(At(path, i))
       IN  components' =
               IF i < Len(path) - 1
               THEN connect(components, comp_name(m), m.term_type, At(path, i + 1))
               ELSE components
    /\ i' = i + 1
    /\ pc' = "loop"
    /\ UNCHANGED <<data, path, netlist, text>>

\* return components
Return ==
    /\ pc = "loop"
    /\ i = Len(path)
    /\ pc' = "returned"
    /\ UNCHANGED <<data, path, i, components, netlist, text>>

\* generate_spice_netlist(components) on the returned map
generate_spice_netlist ==
    /\ pc = "returned"
    /\ netlist' = spice_lines(components)
    /\ text' = join(spice_lines(components), <<"\n">>)
    /\ pc' = "done"
    /\ UNCHANGED <<data, path, i, components>>

Next == Tokenize \/ SkipToken \/ CheckPrev \/ CheckNext \/ Return \/ generate_spice_netlist

Spec == Init /\ [][Next]_vars

(* --------------------- vocabulary of the properties ------------------- *)

Returned == pc \in {"returned", "done"}

Pos == 0..(Len(path) - 1)

IsTerm(j) == terminal_regex(At(path, j)) # None

CompAt(j) == comp_name(terminal_regex(At(path, j)))

CodeAt(j) == terminal_regex(At(path, j)).term_type

\* the terminals (component id, terminal code) that occur in the path
TermPairs == {<<CompAt(j), CodeAt(j)>> : j \in {k \in Pos : IsTerm(k)}}

HasEntry(c, t) == c \in Keys(components) /\ t \in DOMAIN components.conns[c]

Entries == UNION {{<<c, t>> : t \in DOMAIN components.conns[c]} : c \in Keys(components)}

Node(c, t) == components.conns[c][t]

\* the token at k exists, is not c itself and is not a terminal of c
Eligible(c, k) ==
    /\ k \in Pos
    /\ At(path, k) # c
    /\ ~(terminal_regex(At(path, k)) # None /\ comp_name(terminal_regex(At(path, k))) = c)

Occ(c, t) == {j \in Pos : IsTerm(j) /\ CompAt(j) = c /\ CodeAt(j) = t}

\* <<j, 0>> is the left neighbour of occurrence j, <<j, 1>> its right neighbour
Finds(c, t) == {f \in Occ(c, t) \X {0, 1} : Eligible(c, f[1] - 1 + 2 * f[2])}

FirstFind(c, t) ==
    CHOOSE f \in Finds(c, t) :
        \A g \in Finds(c, t) : 2 * f[1] + f[2] <= 2 * g[1] + g[2]

FirstNode(c, t) == At(path, FirstFind(c, t)[1] - 1 + 2 * FirstFind(c, t)[2])

(* ------------------------------- C1 ----------------------------------- *)

\* C1: for every terminal c.t of the path, the node recorded for c.t is, from
\* the moment it is recorded, the first eligible neighbour in scan order
\* (occurrences by ascending position, i-1 before i+1), and when the pass has
\* returned c.t has no entry exactly when no occurrence has an eligible
\* neighbour.
C1_FirstEligibleNeighbour ==
    pc # "start" =>
        \A p \in TermPairs \cup Entries :
            /\ HasEntry(p[1], p[2]) =>
                   /\ Finds(p[1], p[2]) # {}
                   /\ Node(p[1], p[2]) = FirstNode(p[1], p[2])
            /\ (Returned /\ Finds(p[1], p[2]) # {}) => HasEntry(p[1], p[2])

\* a returned pass in which some terminal had two eligible neighbours that differ
C1_Witness ==
    /\ Returned
    /\ \E p \in TermPairs :
           \E f, g \in Finds(p[1], p[2]) :
               /\ At(path, f[1] - 1 + 2 * f[2]) # At(path, g[1] - 1 + 2 * g[2])
               /\ HasEntry(p[1], p[2])

(* ------------------------------- C2 ----------------------------------- *)

\* positions of terminal tokens whose two neighbours are both eligible and differ
TwoSided ==
    {j \in Pos : /\ IsTerm(j)
                 /\ Eligible(CompAt(j), j - 1)
                 /\ Eligible(CompAt(j), j + 1)
                 /\ At(path, j - 1) # At(path, j + 1)}

\* no occurrence of the terminal of position j before j has an eligible neighbour
FirstReached(j) == \A f \in Finds(CompAt(j), CodeAt(j)) : f[1] >= j

\* C2 as stated: a terminal token with two different valid external
\* neighbours always ends up recorded with its left neighbour.
C2_LeftWinsAlways ==
    Returned =>
        \A j \in TwoSided :
            /\ HasEntry(CompAt(j), CodeAt(j))
            /\ Node(CompAt(j), CodeAt(j)) = At(path, j - 1)

\* C2 amended: the left neighbour is recorded, and the right one discarded,
\* when no earlier occurrence of the same terminal had a valid external
\* neighbour.
C2_LeftWinsWhenFirst ==
    Returned =>
        \A j \in TwoSided :
            FirstReached(j) =>
                /\ HasEntry(CompAt(j), CodeAt(j))
                /\ Node(CompAt(j), CodeAt(j)) = At(path, j - 1)
                /\ Node(CompAt(j), CodeAt(j)) # At(path, j + 1)

\* a returned pass with a two-sided terminal that was reached first there
C2_Witness ==
    /\ Returned
    /\ \E j \in TwoSided : FirstReached(j) /\ Node(CompAt(j), CodeAt(j)) = At(path, j - 1)

(* ------------------------------- C3 ----------------------------------- *)

\* C3: a recorded node is never the component's own identifier and never a
\* terminal token of the same component, whichever side it came from.
C3_NoSameComponentNode ==
    \A p \in Entries :
        /\ Node(p[1], p[2]) # p[1]
        /\ \/ terminal_regex(Node(p[1], p[2])) = None
           \/ comp_name(terminal_regex(Node(p[1], p[2]))) # p[1]

\* "NM1_D->NM1_G->A": NM1 has no entry for D and G is connected to A
C3_Witness ==
    /\ Returned
    /\ path = <<tNM1_D, tNM1_G, tA>>
    /\ Keys(components) = {tNM1}
    /\ DOMAIN components.conns[tNM1] = {"G"}
    /\ components.conns[tNM1]["G"] = tA

(* ------------------------------- C4 ----------------------------------- *)

MosCodes == {"D", "G", "S", "B"}

PassiveCodes == {"P", "N"}

IsMos(c) == startswith(c, <<"N", "M">>) \/ startswith(c, <<"P", "M">>)

IsPassive(c) == startswith(c, <<"R">>) \/ startswith(c, <<"C">>)

\* C4: every terminal code recorded for a component is legal for its type:
\* D, G, S, B under NM and PM; P, N under R and C.
C4_LegalTerminalCodes ==
    \A p \in Entries :
        /\ IsMos(p[1]) => p[2] \in MosCodes
        /\ IsPassive(p[1]) => p[2] \in PassiveCodes

(* ------------------------------- C5 ----------------------------------- *)

\* c is one of the four prefixes followed by one or more digits
IsCompId(c) ==
    \E k \in 1..Len(Prefixes) :
        /\ startswith(c, Prefixes[k])
        /\ Len(c) > Len(Prefixes[k])
        /\ \A n \in (Len(Prefixes[k]) + 1)..Len(c) : c[n] \in Digits

\* tok reads c, "_", one allowed letter (the pattern's $ also accepts one
\* final newline)
ReadsAsTerminalOf(tok, c) ==
    \E t \in {"D", "G", "S", "B", "P", "N"} :
        tok \in {c \o <<"_", t>>, c \o <<"_", t, "\n">>}

Prefs(tok) == {SubSeq(tok, 1, n) : n \in 0..Len(tok)}

ReadsAsTerminal(tok) == \E c \in Prefs(tok) : IsCompId(c) /\ ReadsAsTerminalOf(tok, c)

\* C5: every component key is prefix + digits read off some token of the
\* path that matches the terminal pattern; without such a token the map is
\* empty.
C5_KeysFromTerminalTokens ==
    pc # "start" =>
        /\ \A c \in Keys(components) :
               /\ IsCompId(c)
               /\ \E j \in Pos : ReadsAsTerminalOf(At(path, j), c)
        /\ (\A j \in Pos : ~ReadsAsTerminal(At(path, j))) => components = EmptyDict

\* tokens that do not match (R1_Z, nm1_D, NM1, A) made no component, and one
\* of them is recorded as the neighbour of a terminal
C5_Witness ==
    /\ Returned
    /\ \E j \in Pos : At(path, j) \in {tR1_Z, tnm1_D, tNM1, tA}
    /\ tR1 \notin Keys(components)
    /\ \E p \in Entries : Node(p[1], p[2]) = tR1_Z

(* ------------------------------- C6 ----------------------------------- *)

\* the input holds no separator: it is empty or a single token
Degenerate == Occurrences(data, Arrow) = {}

\* C6: on the empty string and on a string of exactly one token the pass
\* reaches its return, over a single token, with an empty component map.
C6_DegenerateInputEmptyMap ==
    Degenerate =>
        /\ components = EmptyDict
        /\ pc # "start" => Len(path) = 1
        /\ pc = "loop" => i \in {0, 1}
        /\ pc = "next" => i = 0 /\ IsTerm(0)

\* the single terminal-matching token NM1_D has been parsed and returned
C6_Witness ==
    /\ Returned
    /\ data = tNM1_D
    /\ path = <<tNM1_D>>
    /\ components = EmptyDict

(* ------------------------------- C7 ----------------------------------- *)

\* C7: no two distinct component keys have the same type prefix and the same
\* numeric id value.
C7_UniquePerTypeAndNumber ==
    \A c1, c2 \in Keys(components) :
        c1 # c2 => sort_key(c1) # sort_key(c2)

(* ------------------------------- C8 ----------------------------------- *)

\* the terminals of the path none of whose occurrences has an eligible neighbour
Isolated == {p \in TermPairs : Finds(p[1], p[2]) = {}}

\* 1-based position of x in the sequence s
IndexOf(s, x) == CHOOSE n \in 1..Len(s) : s[n] = x

\* the netlist line of component key c: the header comes first
LineOf(c) == netlist[1 + IndexOf(sorted(components.keys), c)]

Fields(line) == split(line, SP)

MosSlot == [D |-> 2, G |-> 3, S |-> 4, B |-> 5]

PassiveSlot == [P |-> 2, N |-> 3]

HasSlot(c, t) ==
    \/ IsMos(c) /\ t \in MosCodes
    \/ ~IsMos(c) /\ IsPassive(c) /\ t \in PassiveCodes

SlotOf(c, t) == IF IsMos(c) THEN MosSlot[t] ELSE PassiveSlot[t]

\* C8 as stated: a terminal whose occurrences have no eligible neighbour has
\* no recorded connection and its slot on the component's line reads NC.
C8_IsolatedTerminalRendersNC ==
    pc = "done" =>
        \A p \in Isolated :
            /\ ~HasEntry(p[1], p[2])
            /\ p[1] \in Keys(components)
            /\ HasSlot(p[1], p[2])
            /\ Fields(LineOf(p[1]))[SlotOf(p[1], p[2])] = NC

\* C8 amended: such a terminal has no recorded connection; its slot reads NC
\* when the component has a line (some terminal of it is connected) and the
\* line format of the type has a slot for the code; a component with no
\* connected terminal has no line.
C8_IsolatedTerminalNCWhenLine ==
    pc = "done" =>
        /\ \A p \in Isolated :
               /\ ~HasEntry(p[1], p[2])
               /\ (p[1] \in Keys(components) /\ HasSlot(p[1], p[2])) =>
                      Fields(LineOf(p[1]))[SlotOf(p[1], p[2])] = NC
        /\ Len(netlist) = 2 + Cardinality(Keys(components))
        /\ \A p \in TermPairs :
               p[1] \in Keys(components) <=> \E q \in TermPairs : q[1] = p[1] /\ q \notin Isolated

\* "NM1_D->NM1_G->A" rendered: D is isolated and NM1 has a line through G
C8_Witness ==
    /\ pc = "done"
    /\ <<tNM1, "D">> \in Isolated
    /\ tNM1 \in Keys(components)
    /\ Fields(LineOf(tNM1))[2] = NC
    /\ Fields(LineOf(tNM1))[3] # NC

(* ------------------------------- C9 ----------------------------------- *)

\* C9: every component key has a non-empty inner mapping at every step, and
\* in the result a component none of whose terminals has an eligible
\* neighbour is absent.
C9_NoEmptyComponent ==
    /\ \A c \in Keys(components) : DOMAIN components.conns[c] # {}
    /\ Len(components.keys) = Cardinality(Keys(components))
    /\ Returned =>
           \A p \in TermPairs :
               (\A q \in TermPairs : q[1] = p[1] => q \in Isolated) =>
                   p[1] \notin Keys(components)

\* a returned pass with a connected component and a terminal whose component
\* made no key
C9_Witness ==
    /\ Returned
    /\ Keys(components) # {}
    /\ \E p \in TermPairs : p[1] \notin Keys(components)

(* ------------------------------- C10 ---------------------------------- *)

\* C10: one device line per component key, and distinct keys give lines with
\* distinct instance names (first fields).
C10_DistinctInstanceNames ==
    pc = "done" =>
        /\ Len(netlist) = 2 + Cardinality(Keys(components))
        /\ \A c1, c2 \in Keys(components) :
               c1 # c2 => Fields(LineOf(c1))[1] # Fields(LineOf(c2))[1]

====
